---- MODULE Spec2Model ----
(***************************************************************************)
(* A model of spinner.py: frame normalisation (_dedent_lines,              *)
(* _normalize_frames), the animation loop (animate) with the terminal-mode *)
(* adjustment (enable_virtual_terminal_processing), and PhraseGenerator.    *)
(*                                                                         *)
(* Text is a sequence of one-character strings, so that dedent, strip,     *)
(* splitlines, ljust and join are computed character by character.         *)
(***************************************************************************)
EXTENDS Integers, Sequences, FiniteSets, TLC

VARIABLES
    \* ---- _normalize_frames -------------------------------------------
    raw_frames,     \* the argument of _normalize_frames: a list of texts
    normalized,     \* outcome of _normalize_frames(raw_frames)
    renormalized,   \* outcome of _normalize_frames(normalized.frames)
    \* ---- the process: host, Spinner, animate calls ----------------------
    os_name,        \* os.name of the host
    vt_enabled,     \* enable_virtual_terminal_processing._enabled: "unset", "True", "False"
    vt_attempts,    \* times the console-mode system calls were attempted
    spinner,        \* the Spinner animate is called with: [frames, delay]
    calls,          \* animate calls started so far in the process
    pc,             \* position of the running animate call
    iterations,     \* its cap: [none |-> TRUE] for None, else [value |-> k]
    has_flush,      \* hasattr(writer, "flush")
    index,          \* index of enumerate(spinner.cycle())
    events,         \* what the call did so far: writes, flushes, sleeps
    interrupts,     \* KeyboardInterrupts raised so far in the call
    caught_at,      \* Len(events) when the except clause was entered, else -1
    \* ---- PhraseGenerator ------------------------------------------------
    gens,           \* generator name -> [status, intros, claims, tag, counter]
    produced,       \* generator name -> the strings __next__ returned, in order
    pairs_used,     \* generator name -> the (intro index, claim index) used
    \* ---- Spinner.cycle ---------------------------------------------------
    frames_arg,     \* the frames argument Spinner was constructed with
    cursors,        \* cursor number -> elements taken from that cycle() result
    yielded,        \* cursor number -> the frames it yielded, in order
    \* ---- parse_choice ----------------------------------------------------
    choice_in,      \* the argument of parse_choice
    choice_out,     \* "pending", or what the call returned, or "ValueError"
    \* ---- run_debate ------------------------------------------------------
    figures,        \* "chip", "roach" -> the Spinner built for the figure
    dpc,            \* position of run_debate
    round,          \* turn of its while loop, from 1
    dtrace,         \* what this turn of the loop did so far
    printed,        \* the lines run_debate printed, in order
    stopped,        \* what was there when an interrupt ended run_debate
    shown           \* figure -> frames its previous animate call displayed, or -1

normVars == <<raw_frames, normalized, renormalized>>
hostVars == <<os_name, vt_enabled, vt_attempts, spinner>>
callVars == <<calls, pc, iterations, has_flush, index, events, interrupts, caught_at>>
genVars  == <<gens, produced, pairs_used>>
cycleVars == <<frames_arg, cursors, yielded>>
parseVars == <<choice_in, choice_out>>
debateVars == <<figures, dpc, round, dtrace, printed, stopped, shown>>
restVars == <<cycleVars, parseVars, debateVars>>
vars == <<normVars, hostVars, callVars, genVars, restVars>>

-----------------------------------------------------------------------------
(* Bounds of the model.                                                    *)

\* most frames in a raw-frame list
MaxFrames == 2
\* most characters in a raw-frame list, all its frames together
MaxChars == 5
\* most frames of the Spinner that animate is called with
MaxSpinnerFrames == 2
\* largest iteration cap passed to animate
MaxIterations == 3
\* frames an uncapped animate call is followed for
MaxUncapped == 4
\* most animate calls in one process
MaxCalls == 3

-----------------------------------------------------------------------------
(* Text helpers.                                                           *)

NL == "\n"
SP == " "
\* the characters raw frames are drawn from: blank, newline, one visible
Chars == {SP, NL, "x"}

Max(S) == CHOOSE m \in S : \A n \in S : n <= m
Min(S) == CHOOSE m \in S : \A n \in S : m <= n

\* text.split("\n"): the pieces between newlines, Count(NL) + 1 of them
RECURSIVE SplitNL(_)
SplitNL(text) ==
    IF \A i \in 1..Len(text) : text[i] # NL
    THEN <<text>>
    ELSE LET k == Min({i \in 1..Len(text) : text[i] = NL})
         IN  <<SubSeq(text, 1, k - 1)>> \o SplitNL(SubSeq(text, k + 1, Len(text)))

\* "\n".join(lines)
RECURSIVE JoinNL(_)
JoinNL(lines) ==
    IF lines = <<>> THEN <<>>
    ELSE IF Len(lines) = 1 THEN lines[1]
    ELSE lines[1] \o <<NL>> \o JoinNL(Tail(lines))

\* number of leading blanks of a line
RECURSIVE Indent(_)
Indent(line) ==
    IF line # <<>> /\ Head(line) = SP THEN 1 + Indent(Tail(line)) ELSE 0

\* a line made of blanks only (the empty line included)
Blank(line) == \A i \in 1..Len(line) : line[i] = SP

\* textwrap.dedent(text): blank-only lines become empty, then the common
\* leading blanks of the remaining lines are removed from them
Dedent(text) ==
    LET lines   == SplitNL(text)
        cleaned == [i \in 1..Len(lines) |-> IF Blank(lines[i]) THEN <<>> ELSE lines[i]]
        indents == {Indent(cleaned[i]) : i \in {j \in 1..Len(cleaned) : cleaned[j] # <<>>}}
        margin  == IF indents = {} THEN 0 ELSE Min(indents)
    IN  JoinNL([i \in 1..Len(cleaned) |->
                   IF cleaned[i] = <<>> THEN <<>>
                   ELSE SubSeq(cleaned[i], margin + 1, Len(cleaned[i]))])

\* text.strip("\n"): newlines removed from both ends
RECURSIVE StripNL(_)
StripNL(text) ==
    IF text = <<>> THEN <<>>
    ELSE IF Head(text) = NL THEN StripNL(Tail(text))
    ELSE IF text[Len(text)] = NL THEN StripNL(SubSeq(text, 1, Len(text) - 1))
    ELSE text

\* text.splitlines(): no line for the empty text, and none after a final newline
SplitLines(text) ==
    IF text = <<>> THEN <<>>
    ELSE IF text[Len(text)] = NL THEN SplitNL(SubSeq(text, 1, Len(text) - 1))
    ELSE SplitNL(text)

\* ljust to one column too many
LJustOneMore(line, width) ==
    IF Len(line) >= width + 1 THEN line
    ELSE line \o [i \in 1..(width + 1 - Len(line)) |-> SP]

\* line.ljust(width)
LJust(line, width) ==
    IF Len(line) >= width THEN line
    ELSE line \o [i \in 1..(width - Len(line)) |-> SP]

-----------------------------------------------------------------------------
(* _dedent_lines and _normalize_frames.                                    *)

_dedent_lines(block) == SplitLines(StripNL(Dedent(block)))

\* a short frame left short
PadLinesNone(padded_lines, width, height) == padded_lines

\* [" " * width] * (height - len(padded_lines)), appended when the frame is short
PadLines(padded_lines, width, height) ==
    IF Len(padded_lines) < height
    THEN padded_lines \o [i \in 1..(height - Len(padded_lines)) |-> [j \in 1..width |-> SP]]
    ELSE padded_lines

\* the lengths of all lines of all frames: the argument of max() on line 44
LineLengths(split_frames) ==
    UNION {{Len(split_frames[f][l]) : l \in 1..Len(split_frames[f])} :
              f \in 1..Len(split_frames)}

\* the line counts of the frames: the argument of max() on line 45
LineCounts(split_frames) == {Len(split_frames[f]) : f \in 1..Len(split_frames)}

\* a check that rejects every list holding a frame without lines
RaisesOnAnyEmptyFrame(split_frames) ==
    split_frames = <<>> \/ \E f \in 1..Len(split_frames) : split_frames[f] = <<>>

\* max() raises ValueError on an empty argument, on line 44 or on line 45
MaxRaises(split_frames) ==
    LineLengths(split_frames) = {} \/ LineCounts(split_frames) = {}

_normalize_frames(raw) ==
    LET split_frames == [f \in 1..Len(raw) |-> _dedent_lines(raw[f])]
    IN  IF MaxRaises(split_frames)
        THEN [status |-> "ValueError", frames |-> <<>>]
        ELSE LET width  == Max(LineLengths(split_frames))
                 height == Max(LineCounts(split_frames))
             IN  [status |-> "ok",
                  frames |-> [f \in 1..Len(raw) |->
                      JoinNL(PadLines([l \in 1..Len(split_frames[f]) |->
                                          LJust(split_frames[f][l], width)],
                                      width, height))]]

-----------------------------------------------------------------------------
(* Components at rest: what a specification leaves untouched.              *)

Pending == [status |-> "pending", frames |-> <<>>]
NoCap == [none |-> TRUE, value |-> 0]
Cap(k) == [none |-> FALSE, value |-> k]

NormIdle ==
    /\ raw_frames = <<>>
    /\ normalized = Pending
    /\ renormalized = Pending

CallIdle ==
    /\ calls = 0
    /\ pc = "idle"
    /\ iterations = NoCap
    /\ has_flush = FALSE
    /\ index = 0
    /\ events = <<>>
    /\ interrupts = 0
    /\ caught_at = -1

-----------------------------------------------------------------------------
(* Normalisation of a list of raw frames, and of its own result.           *)

\* every text of at most n characters
Texts(n) == UNION {[1..k -> Chars] : k \in 0..n}

\* every list of m texts with at most n characters in all
RECURSIVE FrameLists(_, _)
FrameLists(m, n) ==
    IF m = 0 THEN {<<>>}
    ELSE UNION {{<<t>> \o rest : rest \in FrameLists(m - 1, n - Len(t))} : t \in Texts(n)}

RawInputs == UNION {FrameLists(m, MaxChars) : m \in 0..MaxFrames}

\* normalized = _normalize_frames(raw_frames)
Normalize ==
    /\ normalized.status = "pending"
    /\ normalized' = _normalize_frames(raw_frames)
    /\ UNCHANGED <<raw_frames, renormalized, hostVars, callVars, genVars, restVars>>

\* renormalized = _normalize_frames(normalized), when the first call returned
Renormalize ==
    /\ normalized.status = "ok"
    /\ renormalized.status = "pending"
    /\ renormalized' = _normalize_frames(normalized.frames)
    /\ UNCHANGED <<raw_frames, normalized, hostVars, callVars, genVars, restVars>>

-----------------------------------------------------------------------------
(* The host and the Spinner.                                               *)

ESC == "\\033"
MOVE_HOME == ESC \o "[H"
CLEAR_SCREEN == ESC \o "[2J"
CLEAR_AND_HOME == CLEAR_SCREEN \o MOVE_HOME

\* Spinner's default delay, in hundredths of a second
DefaultDelay == 12

\* a constructor without the emptiness test
SpinnerInitUnchecked(frames, delay) ==
    [status |-> "ok", frames |-> frames, delay |-> delay]

\* Spinner.__init__
SpinnerInit(frames, delay) ==
    IF frames = <<>>
    THEN [status |-> "ValueError", frames |-> <<>>, delay |-> 0]
    ELSE [status |-> "ok", frames |-> frames, delay |-> delay]

\* the i-th element (i = 0, 1, ...) of itertools.cycle(self.frames)
Cycle(sp, i) == sp.frames[(i % Len(sp.frames)) + 1]

HostInit ==
    /\ os_name \in {"nt", "posix"}
    /\ vt_enabled = "unset"
    /\ vt_attempts = 0
    /\ \E n \in 1..MaxSpinnerFrames :
          spinner = SpinnerInit([i \in 1..n |-> "frame" \o ToString(i)], DefaultDelay)

HostIdle ==
    /\ os_name = "posix"
    /\ vt_enabled = "unset"
    /\ vt_attempts = 0
    /\ spinner = SpinnerInit(<<"frame1">>, DefaultDelay)

CycleIdle ==
    /\ frames_arg = <<"frame1">>
    /\ cursors = <<>>
    /\ yielded = <<>>

ParseIdle ==
    /\ choice_in = <<>>
    /\ choice_out = "pending"

NotStopped == [kind |-> "none", at |-> "", calls |-> 0, events |-> <<>>, printed |-> <<>>]

DebateIdle ==
    /\ figures = [who \in {"chip", "roach"} |->
                     SpinnerInit(<<"frame1">>, DefaultDelay)]
    /\ dpc = "idle"
    /\ round = 1
    /\ dtrace = <<>>
    /\ printed = <<>>
    /\ stopped = NotStopped
    /\ shown = [who \in {"chip", "roach"} |-> -1]

RestIdle == CycleIdle /\ ParseIdle /\ DebateIdle

-----------------------------------------------------------------------------
(* enable_virtual_terminal_processing.                                     *)

\* what the console-mode calls can do: both succeed, GetConsoleMode or
\* SetConsoleMode returns 0, or an exception is raised
VTOutcomes == {"ok", "query_failed", "set_failed", "raised"}

\* the cache test of line 209
VTCached == vt_enabled = "True"

EnableVirtualTerminalProcessing(outcome) ==
    IF os_name # "nt" \/ VTCached
    THEN UNCHANGED <<vt_enabled, vt_attempts>>
    ELSE /\ vt_attempts' = vt_attempts + 1
         /\ vt_enabled' = CASE outcome = "ok"     -> "True"
                            [] outcome = "raised" -> "False"
                            [] OTHER              -> vt_enabled

-----------------------------------------------------------------------------
(* animate.                                                                *)

Write(text) == [op |-> "write", text |-> text, secs |-> 0]
FlushEv     == [op |-> "flush", text |-> <<>>, secs |-> 0]
SleepEv(d)  == [op |-> "sleep", text |-> <<>>, secs |-> d]

FrameText(frame) == <<CLEAR_AND_HOME, frame, NL>>
HintText == <<"Press Ctrl+C to stop.", NL>>
GoodbyeText == <<CLEAR_AND_HOME, "Stopped. Thanks for spinning!", NL>>

\* positions inside the try block of animate
LoopPcs == {"write_frame", "write_hint", "flush", "sleep", "check"}

\* a caller invokes animate(spinner, iterations=cap, writer=w): lines 187-190
AnimateCall(cap, flush) ==
    /\ pc \in {"idle", "returned", "raised"}
    /\ calls < MaxCalls
    /\ calls' = calls + 1
    /\ iterations' = cap
    /\ has_flush' = flush
    /\ index' = 0
    /\ events' = <<>>
    /\ interrupts' = 0
    /\ caught_at' = -1
    /\ pc' = "enable_vt"
    /\ UNCHANGED <<normVars, hostVars, genVars, restVars>>

\* a call of line 191 that lets the exception of the console-mode calls out
EnableVTFatal(outcome) ==
    /\ pc = "enable_vt"
    /\ EnableVirtualTerminalProcessing(outcome)
    /\ pc' = IF os_name = "nt" /\ ~VTCached /\ outcome = "raised"
             THEN "raised" ELSE "write_frame"
    /\ UNCHANGED <<os_name, spinner, calls, iterations, has_flush, index, events,
                   interrupts, caught_at, normVars, genVars, restVars>>

\* line 191
EnableVT(outcome) ==
    /\ pc = "enable_vt"
    /\ EnableVirtualTerminalProcessing(outcome)
    /\ pc' = "write_frame"
    /\ UNCHANGED <<os_name, spinner, calls, iterations, has_flush, index, events,
                   interrupts, caught_at, normVars, genVars, restVars>>

\* line 194
WriteFrame ==
    /\ pc = "write_frame"
    /\ events' = Append(events, Write(FrameText(Cycle(spinner, index))))
    /\ pc' = "write_hint"
    /\ UNCHANGED <<calls, iterations, has_flush, index, interrupts, caught_at,
                   normVars, hostVars, genVars, restVars>>

\* line 195
WriteHint ==
    /\ pc = "write_hint"
    /\ events' = Append(events, Write(HintText))
    /\ pc' = "flush"
    /\ UNCHANGED <<calls, iterations, has_flush, index, interrupts, caught_at,
                   normVars, hostVars, genVars, restVars>>

\* a flush that does not look whether the sink has one
FlushUnconditional ==
    /\ pc = "flush"
    /\ events' = Append(events, FlushEv)
    /\ pc' = "sleep"
    /\ UNCHANGED <<calls, iterations, has_flush, index, interrupts, caught_at,
                   normVars, hostVars, genVars, restVars>>

\* line 196
Flush ==
    /\ pc = "flush"
    /\ events' = IF has_flush THEN Append(events, FlushEv) ELSE events
    /\ pc' = "sleep"
    /\ UNCHANGED <<calls, iterations, has_flush, index, interrupts, caught_at,
                   normVars, hostVars, genVars, restVars>>

\* line 197
Sleep ==
    /\ pc = "sleep"
    /\ events' = Append(events, SleepEv(spinner.delay))
    /\ pc' = "check"
    /\ UNCHANGED <<calls, iterations, has_flush, index, interrupts, caught_at,
                   normVars, hostVars, genVars, restVars>>

\* line 198: iterations is not None and index + 1 >= iterations
CapReached == ~iterations.none /\ index + 1 >= iterations.value

\* lines 198-199, and the next turn of the for loop; an uncapped call is
\* followed for MaxUncapped frames
CheckCap ==
    /\ pc = "check"
    /\ IF CapReached
       THEN pc' = "returned" /\ index' = index
       ELSE /\ index + 1 < MaxUncapped
            /\ index' = index + 1
            /\ pc' = "write_frame"
    /\ UNCHANGED <<calls, iterations, has_flush, events, interrupts, caught_at,
                   normVars, hostVars, genVars, restVars>>

\* a KeyboardInterrupt raised inside the try block: control goes to line 200
Interrupt ==
    /\ pc \in LoopPcs
    /\ interrupts' = interrupts + 1
    /\ caught_at' = Len(events)
    /\ pc' = "except"
    /\ UNCHANGED <<calls, iterations, has_flush, index, events,
                   normVars, hostVars, genVars, restVars>>

\* an except clause that writes the goodbye text and raises again
GoodbyeReraise ==
    /\ pc = "except"
    /\ events' = Append(events, Write(GoodbyeText))
    /\ pc' = "raised"
    /\ UNCHANGED <<calls, iterations, has_flush, index, interrupts, caught_at,
                   normVars, hostVars, genVars, restVars>>

\* line 201, then the function returns
Goodbye ==
    /\ pc = "except"
    /\ events' = Append(events, Write(GoodbyeText))
    /\ pc' = "returned"
    /\ UNCHANGED <<calls, iterations, has_flush, index, interrupts, caught_at,
                   normVars, hostVars, genVars, restVars>>

\* a KeyboardInterrupt raised during lines 187-191, before the try block is
\* entered (enable_virtual_terminal_processing catches Exception only):
\* nothing catches it; the console-mode calls may or may not have run
InterruptEntry ==
    /\ pc = "enable_vt"
    /\ interrupts' = interrupts + 1
    /\ \/ UNCHANGED <<vt_enabled, vt_attempts>>
       \/ \E outcome \in VTOutcomes : EnableVirtualTerminalProcessing(outcome)
    /\ pc' = "raised"
    /\ UNCHANGED <<os_name, spinner, calls, iterations, has_flush, index, events,
                   caught_at, normVars, genVars, restVars>>

\* a KeyboardInterrupt raised in the except clause, before or after its
\* write: nothing catches it
InterruptHandler ==
    /\ pc = "except"
    /\ interrupts' = interrupts + 1
    /\ \E written \in BOOLEAN :
          events' = IF written THEN Append(events, Write(GoodbyeText)) ELSE events
    /\ pc' = "raised"
    /\ UNCHANGED <<calls, iterations, has_flush, index, caught_at,
                   normVars, hostVars, genVars, restVars>>

Caps == {NoCap} \cup {Cap(k) : k \in 0..MaxIterations}

-----------------------------------------------------------------------------
(* PhraseGenerator.                                                        *)

\* most intros, most claims and most productions of a generator
MaxIntros == 2
MaxClaims == 2
MaxProductions == 6

GenNames == {"A", "B"}

\* the word pools generators are built from: the first n of these words
IntroWord(i) == <<"a", "a b", "a">>[((i - 1) % 3) + 1]
ClaimWord(i) == <<"c", "b c", "c">>[((i - 1) % 3) + 1]
Tags == {"tag", "t"}

\* PhraseGenerator.__init__
PhraseGeneratorInit(intros, claims, tag) ==
    IF intros = <<>> \/ claims = <<>>
    THEN [status |-> "ValueError", intros |-> intros, claims |-> claims, tag |-> tag, counter |-> 0]
    ELSE [status |-> "ok", intros |-> intros, claims |-> claims, tag |-> tag, counter |-> 0]

\* a claim index that cycles with the counter itself
ClaimIndexSameStep(g) == g.counter % Len(g.claims)

\* the indices of lines 240-241, 0-based as in the source
IntroIndex(g) == g.counter % Len(g.intros)
ClaimIndex(g) == (g.counter \div Len(g.intros)) % Len(g.claims)

\* a phrase without the rolling marker
PhraseNoMarker(intro, claim, tag, n) ==
    intro \o " " \o claim \o " (" \o tag \o ")"

\* the f-string of line 244, n being self.counter after the increment
Phrase(intro, claim, tag, n) ==
    intro \o " " \o claim \o " (" \o tag \o " #" \o ToString(n) \o ")"

\* PhraseGenerator.__next__: the generator after the call
Advance(g) == [g EXCEPT !.counter = g.counter + 1]

\* a phrase numbered with the counter as it was before the increment
NextPhraseStaleCounter(g) ==
    Phrase(g.intros[IntroIndex(g) + 1], g.claims[ClaimIndex(g) + 1], g.tag, g.counter)

\* PhraseGenerator.__next__: the string returned
NextPhrase(g) ==
    Phrase(g.intros[IntroIndex(g) + 1], g.claims[ClaimIndex(g) + 1], g.tag, Advance(g).counter)

\* next(gens[name])
GenNext(name) ==
    /\ gens[name].status = "ok"
    /\ gens[name].counter < MaxProductions
    /\ gens' = [gens EXCEPT ![name] = Advance(gens[name])]
    /\ produced' = [produced EXCEPT ![name] = Append(@, NextPhrase(gens[name]))]
    /\ pairs_used' = [pairs_used EXCEPT
                         ![name] = Append(@, <<IntroIndex(gens[name]), ClaimIndex(gens[name])>>)]
    /\ UNCHANGED <<normVars, hostVars, callVars, restVars>>

GenConfigs ==
    {PhraseGeneratorInit([i \in 1..l |-> IntroWord(i)], [i \in 1..m |-> ClaimWord(i)], tag) :
        l \in 0..MaxIntros, m \in 0..MaxClaims, tag \in Tags}

GenInit ==
    /\ gens \in [GenNames -> GenConfigs]
    /\ produced = [name \in GenNames |-> <<>>]
    /\ pairs_used = [name \in GenNames |-> <<>>]

GenIdle ==
    /\ gens = [name \in GenNames |-> PhraseGeneratorInit(<<"a">>, <<"c">>, "tag")]
    /\ produced = [name \in GenNames |-> <<>>]
    /\ pairs_used = [name \in GenNames |-> <<>>]

-----------------------------------------------------------------------------
(* Specifications.                                                         *)

\* _normalize_frames applied to every bounded raw-frame list, then to its result
InitNormalize == raw_frames \in RawInputs /\ normalized = Pending /\ renormalized = Pending
                 /\ HostIdle /\ CallIdle /\ GenIdle /\ RestIdle
NextNormalize == Normalize \/ Renormalize
SpecNormalize == InitNormalize /\ [][NextNormalize]_vars

\* a process that calls animate up to MaxCalls times, interrupts included
InitAnimate == HostInit /\ CallIdle /\ NormIdle /\ GenIdle /\ RestIdle
NextAnimate ==
    \/ \E cap \in Caps, flush \in BOOLEAN : AnimateCall(cap, flush)
    \/ \E outcome \in VTOutcomes : EnableVT(outcome)
    \/ WriteFrame
    \/ WriteHint
    \/ Flush
    \/ Sleep
    \/ CheckCap
    \/ Interrupt
    \/ Goodbye
    \/ InterruptEntry
    \/ InterruptHandler
SpecAnimate == InitAnimate /\ [][NextAnimate]_vars

\* two PhraseGenerators, each asked for up to MaxProductions phrases
InitPhrases == GenInit /\ HostIdle /\ CallIdle /\ NormIdle /\ RestIdle
NextPhrases == \E name \in GenNames : GenNext(name)
SpecPhrases == InitPhrases /\ [][NextPhrases]_vars

-----------------------------------------------------------------------------
(* Properties of _normalize_frames, checked under SpecNormalize.           *)

DedentedInput == [f \in 1..Len(raw_frames) |-> _dedent_lines(raw_frames[f])]
\* the lines of a returned frame, as frame.splitlines() gives them
FrameLines(frame) == SplitLines(frame)

\* C5: whenever _normalize_frames returns, it returns one frame per input
\* frame, in the same order (each returned line begins with the dedented
\* input line at its place); every returned frame has as many lines as the
\* tallest dedented input frame, and every returned line is as long as the
\* longest dedented input line.
C5_FramesRectangular ==
    normalized.status = "ok" =>
        /\ Len(normalized.frames) = Len(raw_frames)
        /\ \A f \in 1..Len(normalized.frames) :
              LET lines == FrameLines(normalized.frames[f])
              IN  /\ Len(lines) = Max(LineCounts(DedentedInput))
                  /\ \A l \in 1..Len(lines) : Len(lines[l]) = Max(LineLengths(DedentedInput))
                  /\ \A l \in 1..Len(DedentedInput[f]) :
                        SubSeq(lines[l], 1, Len(DedentedInput[f][l])) = DedentedInput[f][l]

\* C5 witness: a returned list of two frames that differed in line count and
\* in line length before padding
C5_Witness ==
    /\ normalized.status = "ok"
    /\ Len(raw_frames) = 2
    /\ DedentedInput[1] # <<>> /\ DedentedInput[2] # <<>>
    /\ Len(DedentedInput[1]) # Len(DedentedInput[2])
    /\ Cardinality(LineLengths(DedentedInput)) > 1

\* C6 (as claimed): _normalize_frames raises whenever the list is empty and
\* whenever any single frame has no line after dedent/strip.
C6_FailsOnAnyEmptyFrame ==
    (normalized.status # "pending" /\ RaisesOnAnyEmptyFrame(DedentedInput))
        => normalized.status = "ValueError"

\* C6 (amended): _normalize_frames raises ValueError, returning no frame
\* list, exactly when no frame has any line after dedent/strip (the empty
\* list included); a frame without lines beside a frame with lines does not
\* make it fail.
C6_FailsIffNoLineAtAll ==
    normalized.status # "pending" =>
        /\ normalized.status = "ValueError"
              <=> \A f \in 1..Len(raw_frames) : DedentedInput[f] = <<>>
        /\ normalized.status = "ValueError" => normalized.frames = <<>>

\* C6 witness: the call failed on a non-empty list of frames, one of them
\* not the empty text
C6_Witness ==
    /\ normalized.status = "ValueError"
    /\ Len(raw_frames) = 2
    /\ raw_frames[1] # <<>>

-----------------------------------------------------------------------------
(* Properties of animate, checked under SpecAnimate.                       *)

\* how many events of the running call satisfy a test
CountEvents(Test(_)) == Cardinality({i \in 1..Len(events) : Test(events[i])})

IsClear(e) == e.op = "write" /\ e.text[1] = CLEAR_AND_HOME
IsFrame(e) == e.op = "write" /\ \E i \in 0..(Len(spinner.frames) - 1) : e.text = FrameText(Cycle(spinner, i))
IsSleep(e) == e.op = "sleep"
IsGoodbye(e) == e = Write(GoodbyeText)

\* C1: without an interrupt, a call with cap k returns only after writing
\* exactly k frames (k clear-screen-and-home sequences), and a call without
\* a cap does not return.
C1_ExactlyKFrames ==
    interrupts = 0 =>
        /\ (pc = "returned" /\ ~iterations.none) =>
              /\ CountEvents(IsFrame) = iterations.value
              /\ CountEvents(IsClear) = iterations.value
        /\ iterations.none => pc # "returned"

\* C2: in a call with cap k the sleep primitive has been called at most k
\* times, at every point of the call.
C2_SleepsWithinCap ==
    (pc # "idle" /\ ~iterations.none) => CountEvents(IsSleep) <= iterations.value

\* C3: once a KeyboardInterrupt was raised inside the try block, the call is
\* in its except clause or has left it; the only thing written after the
\* interrupt is the goodbye text, at most once and no frame after it; the
\* call that returns has written it exactly once, as its last write; and the
\* call does not end by raising unless a further KeyboardInterrupt was
\* raised inside the except clause itself.
C3_InterruptCaughtOnce ==
    caught_at >= 0 =>
        /\ pc \in {"except", "returned", "raised"}
        /\ Len(events) <= caught_at + 1
        /\ \A i \in (caught_at + 1)..Len(events) : IsGoodbye(events[i])
        /\ pc = "except" => Len(events) = caught_at
        /\ pc = "returned" => Len(events) = caught_at + 1
        /\ pc = "raised" => interrupts > 1

\* C3 witness: a call interrupted after it wrote a frame has returned
C3_Witness ==
    /\ pc = "returned"
    /\ interrupts = 1
    /\ caught_at >= 1
    /\ CountEvents(IsGoodbye) = 1

\* C4: the console-mode system calls are attempted at most once in a process.
C4_AttemptedAtMostOnce == vt_attempts <= 1

-----------------------------------------------------------------------------
(* Properties of PhraseGenerator, checked under SpecPhrases.               *)

Constructed == {name \in GenNames : gens[name].status = "ok"}

\* C8: the counter of a constructed generator equals the number of __next__
\* calls made (it grows by exactly 1 per call), and the strings returned so
\* far are pairwise distinct, also once index pairs repeat.
C8_CounterAndDistinct ==
    \A name \in Constructed :
        /\ gens[name].counter = Len(produced[name])
        /\ \A i, j \in 1..Len(produced[name]) :
              i # j => produced[name][i] # produced[name][j]

\* C8 witness: a generator with 2 intros and 2 claims has produced more than
\* 2 * 2 strings, so that index pairs have repeated
C8_Witness ==
    \E name \in Constructed :
        /\ Len(gens[name].intros) = 2 /\ Len(gens[name].claims) = 2
        /\ Len(produced[name]) > 4
        /\ \E i, j \in 1..Len(pairs_used[name]) :
              i # j /\ pairs_used[name][i] = pairs_used[name][j]

\* C9: with L intros and M claims, the index pairs of the first L*M
\* productions are pairwise distinct and cover 0..L-1 x 0..M-1, and
\* production L*M + 1 reuses a pair (that of production 1).
C9_PairsCycle ==
    \A name \in Constructed :
        LET L == Len(gens[name].intros)
            M == Len(gens[name].claims)
            used == pairs_used[name]
        IN  /\ \A i, j \in 1..Len(used) :
                  (i < j /\ j <= L * M) => used[i] # used[j]
            /\ Len(used) >= L * M =>
                  {used[i] : i \in 1..(L * M)} = (0..(L - 1)) \X (0..(M - 1))
            /\ Len(used) >= L * M + 1 => used[L * M + 1] = used[1]

\* C9 witness: a generator with 2 intros and 2 claims has made production 5
C9_Witness ==
    \E name \in Constructed :
        /\ Len(gens[name].intros) = 2 /\ Len(gens[name].claims) = 2
        /\ Len(pairs_used[name]) >= 5

\* C10: the n-th string a generator returned is
\* "<intro> <claim> (<tag> #n)" with intro = intros[(n-1) % L] and
\* claim = claims[((n-1) // L) % M]; two generators built with the same
\* intros, claims and tag have returned the same strings, call for call.
C10_NthProduction ==
    /\ \A name \in Constructed : \A n \in 1..Len(produced[name]) :
          LET g == gens[name]
              L == Len(g.intros)
              M == Len(g.claims)
          IN  produced[name][n] =
                  g.intros[((n - 1) % L) + 1] \o " "
                      \o g.claims[(((n - 1) \div L) % M) + 1]
                      \o " (" \o g.tag \o " #" \o ToString(n) \o ")"
    /\ \A a, b \in Constructed :
          (gens[a].intros = gens[b].intros /\ gens[a].claims = gens[b].claims
              /\ gens[a].tag = gens[b].tag)
          => \A n \in 1..Len(produced[a]) :
                n <= Len(produced[b]) => produced[a][n] = produced[b][n]

\* C10 witness: two generators built alike, with 2 intros and 2 claims, have
\* each produced at least 3 strings, one of them more than the other
C10_Witness ==
    /\ Constructed = GenNames
    /\ gens["A"].intros = gens["B"].intros
    /\ gens["A"].claims = gens["B"].claims
    /\ gens["A"].tag = gens["B"].tag
    /\ Len(gens["A"].intros) = 2 /\ Len(gens["A"].claims) = 2
    /\ Len(produced["A"]) >= 3
    /\ Len(produced["B"]) > Len(produced["A"])

-----------------------------------------------------------------------------
(* Spinner construction and Spinner.cycle.                                 *)

\* most cursors taken from one Spinner, and most elements taken from one
MaxCursors == 3
MaxTaken == 4

\* where the iterator returned by a call of cycle() stands: at frame 0
CycleStart(cs) == 0

\* cursor = spinner.cycle(), on a Spinner that was constructed
NewCursor ==
    /\ spinner.status = "ok"
    /\ Len(cursors) < MaxCursors
    /\ cursors' = Append(cursors, CycleStart(cursors))
    /\ yielded' = Append(yielded, <<>>)
    /\ UNCHANGED <<frames_arg, parseVars, debateVars, normVars, hostVars, callVars, genVars>>

\* one iterator shared by every cursor: a step of one is a step of all
AllCursorsStep(cs, c) == [i \in DOMAIN cs |-> cs[i] + 1]

\* the cursors after next(cursor c): only c has moved
CursorsAfterNext(cs, c) == [cs EXCEPT ![c] = @ + 1]

\* frame = next(cursor c)
CursorNext(c) ==
    /\ c \in 1..Len(cursors)
    /\ cursors[c] < MaxTaken
    /\ yielded' = [yielded EXCEPT ![c] = Append(@, Cycle(spinner, cursors[c]))]
    /\ cursors' = CursorsAfterNext(cursors, c)
    /\ UNCHANGED <<frames_arg, parseVars, debateVars, normVars, hostVars, callVars, genVars>>

\* the frame sequences Spinner is constructed with, the empty one included
FrameArgs == {[i \in 1..n |-> "frame" \o ToString(i)] : n \in 0..MaxSpinnerFrames}

\* Spinner(frames) for every bounded frames, then cycle() and next() on it
InitCycle ==
    /\ frames_arg \in FrameArgs
    /\ spinner = SpinnerInit(frames_arg, DefaultDelay)
    /\ os_name = "posix" /\ vt_enabled = "unset" /\ vt_attempts = 0
    /\ cursors = <<>>
    /\ yielded = <<>>
    /\ ParseIdle /\ DebateIdle /\ NormIdle /\ CallIdle /\ GenIdle
NextCycle ==
    \/ NewCursor
    \/ \E c \in 1..MaxCursors : CursorNext(c)
SpecCycle == InitCycle /\ [][NextCycle]_vars

\* C11: every cursor, however the calls of cycle() and next() interleave,
\* has yielded frames[i mod N] as its i-th element (i = 0, 1, ...) and has
\* taken as many elements as were asked of it; the Spinner still holds the
\* frames and the delay it was constructed with.
C11_IndependentCursors ==
    /\ Len(yielded) = Len(cursors)
    /\ \A c \in 1..Len(cursors) :
          /\ Len(yielded[c]) = cursors[c]
          /\ \A i \in 1..Len(yielded[c]) :
                yielded[c][i] = frames_arg[((i - 1) % Len(frames_arg)) + 1]
    /\ spinner.status = "ok" => spinner.frames = frames_arg /\ spinner.delay = DefaultDelay

\* C11 witness: of two cursors on a Spinner of 2 frames, one has gone round
\* the frames and the other, obtained from the same Spinner, has taken one
C11_Witness ==
    /\ Len(frames_arg) = 2
    /\ Len(cursors) >= 2
    /\ cursors[1] >= 3
    /\ cursors[2] = 1

\* C15: Spinner(frames) fails with ValueError exactly when frames is empty;
\* a Spinner that exists has at least one frame, and so has every Spinner a
\* cursor was taken from.
C15_NeverEmpty ==
    /\ spinner.status = "ValueError" <=> frames_arg = <<>>
    /\ spinner.status = "ok" => Len(spinner.frames) >= 1
    /\ cursors # <<>> => spinner.status = "ok" /\ spinner.frames # <<>>

\* C15 witness: the construction with an empty sequence has failed
C15_Witness ==
    /\ frames_arg = <<>>
    /\ spinner.status = "ValueError"
    /\ cursors = <<>>

-----------------------------------------------------------------------------
(* parse_choice.                                                           *)

\* longest text drawn letter by letter, and longest run of whitespace put
\* around a word
MaxChoiceLen == 3
MaxPad == 1

\* characters str.strip() removes
Whitespace == {" ", "\t", "\n"}

\* value.strip()
RECURSIVE Strip(_)
Strip(text) ==
    IF text = <<>> THEN <<>>
    ELSE IF Head(text) \in Whitespace THEN Strip(Tail(text))
    ELSE IF text[Len(text)] \in Whitespace THEN Strip(SubSeq(text, 1, Len(text) - 1))
    ELSE text

UpperCase == <<"A", "C", "D", "H", "I", "K", "L", "N", "O", "P", "R", "S", "V", "X">>
LowerCase == <<"a", "c", "d", "h", "i", "k", "l", "n", "o", "p", "r", "s", "v", "x">>

\* ch.lower() and ch.upper(), for the letters texts are drawn from
LowerChar(ch) ==
    IF \E i \in 1..Len(UpperCase) : UpperCase[i] = ch
    THEN LowerCase[CHOOSE i \in 1..Len(UpperCase) : UpperCase[i] = ch]
    ELSE ch
UpperChar(ch) ==
    IF \E i \in 1..Len(LowerCase) : LowerCase[i] = ch
    THEN UpperCase[CHOOSE i \in 1..Len(LowerCase) : LowerCase[i] = ch]
    ELSE ch

\* value.lower()
Lower(text) == [i \in 1..Len(text) |-> LowerChar(text[i])]

\* the sets of lines 170 and 172
ChipAliases == {<<"c", "h", "i", "p">>, <<"c">>}
RoachAliases == {<<"c", "o", "c", "k", "r", "o", "a", "c", "h">>,
                 <<"r", "o", "a", "c", "h">>, <<"r">>}

\* a parse_choice that lower-cases without trimming
parse_choice_untrimmed(value) ==
    LET lowered == Lower(value)
    IN  IF lowered \in ChipAliases THEN "chip"
        ELSE IF lowered \in RoachAliases THEN "cockroach"
        ELSE "ValueError"

\* parse_choice: what it returns, or "ValueError" when it raises
parse_choice(value) ==
    LET lowered == Lower(Strip(value))
    IN  IF lowered \in ChipAliases THEN "chip"
        ELSE IF lowered \in RoachAliases THEN "cockroach"
        ELSE "ValueError"

\* result = parse_choice(choice_in)
ParseChoice ==
    /\ choice_out = "pending"
    /\ choice_out' = parse_choice(choice_in)
    /\ UNCHANGED <<choice_in, cycleVars, debateVars, normVars, hostVars, callVars, genVars>>

\* the arguments: every short text over a few characters, and the accepted
\* words and words close to them, in four spellings, inside whitespace
ChoiceChars == {"c", "C", "r", "R", " ", "x"}
ShortChoices == UNION {[1..k -> ChoiceChars] : k \in 0..MaxChoiceLen}
NearWords == {<<"c", "h", "i">>, <<"c", "h", "i", "p", "s">>, <<"r", "o", "a", "c">>,
              <<"c", "o", "c", "k", "r", "o", "a", "c">>, <<"c", "h", " ", "i", "p">>,
              <<"i", "n", "v", "a", "l", "i", "d">>}
Spellings(w) ==
    {w,
     [i \in 1..Len(w) |-> UpperChar(w[i])],
     [i \in 1..Len(w) |-> IF i = 1 THEN UpperChar(w[i]) ELSE w[i]],
     [i \in 1..Len(w) |-> IF i = 1 THEN w[i] ELSE UpperChar(w[i])]}
Pads == UNION {[1..k -> Whitespace] : k \in 0..MaxPad}
PaddedWords ==
    {l \o v \o r : l \in Pads, r \in Pads,
                   v \in UNION {Spellings(w) : w \in ChipAliases \cup RoachAliases \cup NearWords}}
ChoiceInputs == ShortChoices \cup PaddedWords

InitParse ==
    /\ choice_in \in ChoiceInputs
    /\ choice_out = "pending"
    /\ CycleIdle /\ DebateIdle /\ HostIdle /\ NormIdle /\ CallIdle /\ GenIdle
NextParse == ParseChoice
SpecParse == InitParse /\ [][NextParse]_vars

\* C14: with t the argument trimmed of surrounding whitespace and
\* lower-cased, parse_choice returns "chip" exactly when t is "chip" or "c",
\* returns "cockroach" exactly when t is "cockroach", "roach" or "r", and
\* raises ValueError for every other argument; it returns nothing else.
C14_ParseChoice ==
    choice_out # "pending" =>
        LET t == Lower(Strip(choice_in))
            chip == t = <<"c", "h", "i", "p">> \/ t = <<"c">>
            roach == \/ t = <<"c", "o", "c", "k", "r", "o", "a", "c", "h">>
                     \/ t = <<"r", "o", "a", "c", "h">>
                     \/ t = <<"r">>
        IN  /\ choice_out \in {"chip", "cockroach", "ValueError"}
            /\ choice_out = "chip" <=> chip
            /\ choice_out = "cockroach" <=> roach
            /\ choice_out = "ValueError" <=> ~chip /\ ~roach

\* C14 witness: " Roach" with whitespace around it and a capital was parsed
\* as "cockroach"
C14_Witness ==
    /\ choice_out = "cockroach"
    /\ Len(choice_in) = 7
    /\ choice_in[1] \in Whitespace
    /\ choice_in[2] = "R"
    /\ choice_in[7] \in Whitespace

-----------------------------------------------------------------------------
(* Further properties of animate, checked under SpecAnimate.               *)

\* events of one turn of the loop, and the j-th event (j = 1, 2, ...) of a
\* call that is not interrupted: frame, hint, flush if the sink has one, sleep
TurnLength == IF has_flush THEN 4 ELSE 3
TurnEvent(j) ==
    LET turn == (j - 1) \div TurnLength
        at   == (j - 1) % TurnLength
    IN  CASE at = 0 -> Write(FrameText(spinner.frames[(turn % Len(spinner.frames)) + 1]))
          [] at = 1 -> Write(HintText)
          [] at = 2 /\ has_flush -> FlushEv
          [] OTHER  -> SleepEv(spinner.delay)

\* the events of the call that lie before the interrupt, if there was one
LoopEvents == IF caught_at >= 0 THEN caught_at ELSE Len(events)

\* C16: nothing but a KeyboardInterrupt ends an animate call by raising,
\* whatever the terminal-mode adjustment did; and a call that returns without
\* interrupt has written and slept exactly as its cap, its Spinner and its
\* sink dictate (one turn for a cap of 0), the same for every outcome of the
\* adjustment.
C16_AdjustmentSilent ==
    /\ pc = "raised" => interrupts >= 1
    /\ (pc = "returned" /\ interrupts = 0) =>
          /\ Len(events) = TurnLength * (IF iterations.value = 0 THEN 1 ELSE iterations.value)
          /\ \A j \in 1..Len(events) : events[j] = TurnEvent(j)

\* C16 witness: on an nt host the first call, whose adjustment raised, has
\* returned after writing frames
C16_Witness ==
    /\ os_name = "nt"
    /\ calls = 1
    /\ vt_attempts = 1
    /\ vt_enabled = "False"
    /\ pc = "returned"
    /\ interrupts = 0
    /\ CountEvents(IsFrame) >= 2

\* C17: in every turn of the loop the events come in the order frame write,
\* hint write, flush (only with a sink that has one), one sleep of the
\* Spinner's delay; the cap is tested only after the sleep, so a call that
\* returns without interrupt ends with the sleep that follows its last frame.
C17_TurnOrder ==
    /\ \A j \in 1..LoopEvents : events[j] = TurnEvent(j)
    /\ pc = "check" => events[Len(events)] = SleepEv(spinner.delay)
    /\ (pc = "returned" /\ interrupts = 0) =>
          /\ events # <<>>
          /\ events[Len(events)] = SleepEv(spinner.delay)
          /\ CountEvents(IsSleep) = CountEvents(IsFrame)

\* C17 witness: a call on a sink without flush has returned after 2 turns
C17_Witness ==
    /\ pc = "returned"
    /\ interrupts = 0
    /\ ~has_flush
    /\ Len(events) = 6

-----------------------------------------------------------------------------
(* run_debate.                                                             *)

\* turns of the while loop that are followed
MaxRounds == 2

\* time.sleep(3)
PauseSecs == 3

Figures == {"chip", "roach"}
\* pro_claude speaks for the chip, pro_chatgpt for the cockroach
GenOf(who) == IF who = "chip" THEN "A" ELSE "B"
Label(who) == IF who = "chip" THEN "Chip: " ELSE "Cockroach: "

\* entries of dtrace and of printed
Step(step, who, n, intr, bye) == [step |-> step, who |-> who, n |-> n, intr |-> intr, bye |-> bye]
Line(who, text) == [who |-> who, text |-> text]

\* a burst cut to a single frame
BurstCapOne(who) == Cap(1)

\* iterations=len(chip.frames), iterations=len(roach.frames)
BurstCap(who) == Cap(Len(figures[who].frames))

\* an index that goes on from where the previous call left it
StartIndexResumed == index

\* enumerate() counts from 0 and a fresh cycle() starts at frame 0
StartIndex == 0

\* after an interrupted burst, stop
AfterAnimateStop(who) == IF interrupts > 0 THEN "raised" ELSE "next_" \o who

\* after an interrupted burst, go on without the phrase
AfterAnimateSkip(who) == IF interrupts > 0 THEN "pause_" \o who ELSE "next_" \o who

\* the statement after animate(...): lines 289 and 292
AfterAnimate(who) == "next_" \o who

Snapshot(kind) ==
    [kind |-> kind, at |-> dpc, calls |-> calls, events |-> events, printed |-> printed]

\* line 286
DebateStart ==
    /\ dpc = "start"
    /\ printed' = Append(printed, Line("", "Starting with the chip. Ctrl+C to exit."))
    /\ dpc' = "animate_chip"
    /\ UNCHANGED <<figures, round, dtrace, stopped, shown,
                   cycleVars, parseVars, normVars, hostVars, callVars, genVars>>

\* lines 288 and 291: animate is entered, with sys.stdout as the sink
DebateAnimate(who) ==
    /\ dpc = "animate_" \o who
    /\ spinner' = figures[who]
    /\ iterations' = BurstCap(who)
    /\ has_flush' = TRUE
    /\ calls' = calls + 1
    /\ index' = StartIndex
    /\ events' = <<>>
    /\ interrupts' = 0
    /\ caught_at' = -1
    /\ pc' = "enable_vt"
    /\ dpc' = "in_" \o who
    /\ UNCHANGED <<figures, round, dtrace, printed, stopped, shown, os_name, vt_enabled,
                   vt_attempts, cycleVars, parseVars, normVars, genVars>>

\* animate has returned to run_debate
DebateReturned(who) ==
    /\ dpc = "in_" \o who
    /\ pc = "returned"
    /\ dtrace' = Append(dtrace, Step("animate", who, CountEvents(IsFrame), interrupts,
                                     CountEvents(IsGoodbye)))
    /\ shown' = [shown EXCEPT ![who] = dtrace'[Len(dtrace')].n]
    /\ dpc' = AfterAnimate(who)
    /\ UNCHANGED <<figures, round, printed, stopped,
                   cycleVars, parseVars, normVars, hostVars, callVars, genVars>>

\* animate has raised: nothing in run_debate catches it
DebateRaised(who) ==
    /\ dpc = "in_" \o who
    /\ pc = "raised"
    /\ stopped' = Snapshot("animate")
    /\ dpc' = "raised"
    /\ UNCHANGED <<figures, round, dtrace, printed, shown,
                   cycleVars, parseVars, normVars, hostVars, callVars, genVars>>

\* next(pro_claude), next(pro_chatgpt): the argument of print is evaluated
DebateNext(who) ==
    /\ dpc = "next_" \o who
    /\ gens' = [gens EXCEPT ![GenOf(who)] = Advance(@)]
    /\ produced' = [produced EXCEPT ![GenOf(who)] = Append(@, NextPhrase(gens[GenOf(who)]))]
    /\ pairs_used' = [pairs_used EXCEPT ![GenOf(who)] =
                         Append(@, <<IntroIndex(gens[GenOf(who)]), ClaimIndex(gens[GenOf(who)])>>)]
    /\ dpc' = "print_" \o who
    /\ UNCHANGED <<figures, round, dtrace, printed, stopped, shown,
                   cycleVars, parseVars, normVars, hostVars, callVars>>

\* lines 289 and 292: the phrase is printed behind its label
DebatePrint(who) ==
    /\ dpc = "print_" \o who
    /\ LET phrases == produced[GenOf(who)]
       IN  printed' = Append(printed, Line(who, Label(who) \o phrases[Len(phrases)]))
    /\ dtrace' = Append(dtrace, Step("print", who, gens[GenOf(who)].counter, 0, 0))
    /\ dpc' = "pause_" \o who
    /\ UNCHANGED <<figures, round, stopped, shown,
                   cycleVars, parseVars, normVars, hostVars, callVars, genVars>>

\* lines 290 and 293
DebatePause(who) ==
    /\ dpc = "pause_" \o who
    /\ dtrace' = Append(dtrace, Step("pause", who, PauseSecs, 0, 0))
    /\ dpc' = IF who = "chip" THEN "animate_roach" ELSE "loop"
    /\ UNCHANGED <<figures, round, printed, stopped, shown,
                   cycleVars, parseVars, normVars, hostVars, callVars, genVars>>

\* line 287: the next turn of while True, followed for MaxRounds turns
DebateLoop ==
    /\ dpc = "loop"
    /\ round < MaxRounds
    /\ round' = round + 1
    /\ dtrace' = <<>>
    /\ dpc' = "animate_chip"
    /\ UNCHANGED <<figures, printed, stopped, shown,
                   cycleVars, parseVars, normVars, hostVars, callVars, genVars>>

\* positions of run_debate outside animate
OutsidePcs ==
    {"start", "loop"} \cup {p \o who : p \in {"animate_", "next_", "print_", "pause_"}, who \in Figures}

\* an interrupt outside animate that something catches, says goodbye to and
\* lets the loop go on
DebateInterruptCaught ==
    /\ dpc \in OutsidePcs
    /\ stopped' = Snapshot("outside")
    /\ printed' = Append(printed, Line("", "Stopped. Thanks for spinning!"))
    /\ dpc' = dpc
    /\ UNCHANGED <<figures, round, dtrace, shown,
                   cycleVars, parseVars, normVars, hostVars, callVars, genVars>>

\* a KeyboardInterrupt raised while run_debate is outside animate: there is
\* no try statement in run_debate or main, so it ends run_debate
DebateInterrupt ==
    /\ dpc \in OutsidePcs
    /\ stopped' = Snapshot("outside")
    /\ dpc' = "raised"
    /\ UNCHANGED <<figures, round, dtrace, printed, shown,
                   cycleVars, parseVars, normVars, hostVars, callVars, genVars>>

\* the frames of a figure of n frames
FigureFrames(who, n) == [i \in 1..n |-> who \o ToString(i)]

\* run_debate after lines 249-284, on either host
InitDebate ==
    /\ os_name \in {"nt", "posix"}
    /\ vt_enabled = "unset"
    /\ vt_attempts = 0
    /\ \E nc \in 1..MaxSpinnerFrames, nr \in 1..MaxSpinnerFrames :
          figures = [who \in Figures |->
                        SpinnerInit(FigureFrames(who, IF who = "chip" THEN nc ELSE nr), DefaultDelay)]
    /\ spinner = figures["chip"]
    /\ gens = [name \in GenNames |->
                  PhraseGeneratorInit([i \in 1..MaxIntros |-> IntroWord(i)],
                                      [i \in 1..MaxClaims |-> ClaimWord(i)],
                                      IF name = "A" THEN "claude-support" ELSE "chatgpt-defense")]
    /\ produced = [name \in GenNames |-> <<>>]
    /\ pairs_used = [name \in GenNames |-> <<>>]
    /\ dpc = "start"
    /\ round = 1
    /\ dtrace = <<>>
    /\ printed = <<>>
    /\ stopped = NotStopped
    /\ shown = [who \in Figures |-> -1]
    /\ CallIdle /\ NormIdle /\ CycleIdle /\ ParseIdle
NextDebate ==
    \/ DebateStart
    \/ \E who \in Figures : DebateAnimate(who)
    \/ \E outcome \in VTOutcomes : EnableVT(outcome)
    \/ WriteFrame
    \/ WriteHint
    \/ Flush
    \/ Sleep
    \/ CheckCap
    \/ Interrupt
    \/ Goodbye
    \/ InterruptEntry
    \/ InterruptHandler
    \/ \E who \in Figures : DebateReturned(who)
    \/ \E who \in Figures : DebateRaised(who)
    \/ \E who \in Figures : DebateNext(who)
    \/ \E who \in Figures : DebatePrint(who)
    \/ \E who \in Figures : DebatePause(who)
    \/ DebateLoop
    \/ DebateInterrupt
SpecDebate == InitDebate /\ [][NextDebate]_vars

-----------------------------------------------------------------------------
(* Properties of run_debate.                                               *)

InAnimate == dpc \in {"in_" \o who : who \in Figures}

\* steps of the current turn that are behind position p
StepsDone(p) ==
    CASE p \in {"start", "animate_chip", "in_chip"} -> 0
      [] p \in {"next_chip", "print_chip"} -> 1
      [] p = "pause_chip" -> 2
      [] p \in {"animate_roach", "in_roach"} -> 3
      [] p \in {"next_roach", "print_roach"} -> 4
      [] p = "pause_roach" -> 5
      [] p = "loop" -> 6

\* the body of the while loop, lines 288-293
RoundOrder ==
    <<Step("animate", "chip", Len(figures["chip"].frames), 0, 0),
      Step("print", "chip", round, 0, 0),
      Step("pause", "chip", PauseSecs, 0, 0),
      Step("animate", "roach", Len(figures["roach"].frames), 0, 0),
      Step("print", "roach", round, 0, 0),
      Step("pause", "roach", PauseSecs, 0, 0)>>

\* no interrupt has been delivered in the current turn
RoundQuiet ==
    /\ \A j \in 1..Len(dtrace) : dtrace[j].intr = 0
    /\ InAnimate => interrupts = 0

\* C12: absent interrupts, every turn of run_debate is the fixed order:
\* animate the chip for exactly len(chip.frames) frames, print exactly one
\* production of pro_claude, pause 3 seconds, animate the cockroach for
\* exactly len(roach.frames) frames, print exactly one production of
\* pro_chatgpt, pause 3 seconds, with no step skipped, duplicated or
\* reordered; and run_debate ends only through an interrupt.
C12_FixedOrder ==
    /\ (dpc # "raised" /\ RoundQuiet) =>
          /\ Len(dtrace) = StepsDone(dpc)
          /\ \A j \in 1..Len(dtrace) : dtrace[j] = RoundOrder[j]
    /\ dpc = "raised" =>
          /\ stopped.kind \in {"outside", "animate"}
          /\ stopped.kind = "animate" => interrupts >= 1

\* a second turn that ran undisturbed to its end, on a chip of two frames
C12_Witness ==
    /\ dpc = "loop"
    /\ round = 2
    /\ RoundQuiet
    /\ Len(dtrace) = 6
    /\ Len(figures["chip"].frames) = 2

\* C13 as stated: a single interrupt delivered while run_debate is inside an
\* animate call never stops run_debate.
C13_SingleInterruptNeverStops ==
    ~ ( /\ dpc = "raised"
        /\ stopped.kind = "animate"
        /\ interrupts = 1
        /\ round = 1
        /\ \A j \in 1..Len(dtrace) : dtrace[j].intr = 0 )

\* C13: a single interrupt delivered while animate is inside its try block
\* (lines 192-199) does not stop run_debate: the call writes its goodbye
\* message and returns, and the turn goes on in the fixed order with the
\* phrase, the pause and the next animate call. run_debate is stopped from
\* inside animate only by an interrupt delivered before the try block is
\* entered or by a second one delivered in the handler.
C13_CaughtInsideTry ==
    /\ (dpc = "raised" /\ stopped.kind = "animate") =>
          /\ pc = "raised"
          /\ caught_at = -1 \/ interrupts >= 2
    /\ dpc = "raised" => stopped.kind # "none"
    /\ (InAnimate /\ caught_at >= 0 /\ interrupts = 1) => pc \in {"except", "returned"}
    /\ dpc # "raised" => Len(dtrace) = StepsDone(dpc)
    /\ \A j \in 1..Len(dtrace) :
          /\ dtrace[j].step = RoundOrder[j].step
          /\ dtrace[j].who = RoundOrder[j].who
          /\ (dtrace[j].step = "animate" /\ dtrace[j].intr >= 1) =>
                /\ dtrace[j].intr = 1
                /\ dtrace[j].bye = 1
                /\ dtrace[j].n <= RoundOrder[j].n

\* the chip burst was interrupted once and said goodbye, its phrase and pause
\* followed, and the cockroach is being animated
C13_Witness ==
    /\ dpc = "in_roach"
    /\ Len(dtrace) = 3
    /\ dtrace[1].intr = 1
    /\ dtrace[1].bye = 1
    /\ CountEvents(IsFrame) >= 1

\* C18: an interrupt delivered while run_debate is outside an animate call
\* ends run_debate: after it no goodbye message is written, nothing more is
\* printed and no further animate call is made.
C18_OutsideInterruptEnds ==
    stopped.kind = "outside" =>
        /\ dpc = "raised"
        /\ calls = stopped.calls
        /\ events = stopped.events
        /\ printed = stopped.printed
        /\ \A j \in 1..Len(printed) : printed[j].text # "Stopped. Thanks for spinning!"
        /\ pc \in {"idle", "returned"}

\* run_debate was interrupted in the pause after the chip's phrase
C18_Witness ==
    /\ stopped.kind = "outside"
    /\ stopped.at = "pause_chip"
    /\ stopped.calls >= 1
    /\ dpc = "raised"

IsPhrase(l) == l.who # ""
PhraseLines == SelectSeq(printed, IsPhrase)

\* C19: in every state of run_debate the counter of pro_claude minus the
\* counter of pro_chatgpt is 0 or 1, and the printed phrases alternate
\* strictly, chip first, each being the next production of its generator.
C19_Alternate ==
    /\ gens["A"].counter - gens["B"].counter \in {0, 1}
    /\ \A j \in 1..Len(PhraseLines) :
          LET who == IF j % 2 = 1 THEN "chip" ELSE "roach"
          IN  /\ PhraseLines[j].who = who
              /\ PhraseLines[j].text = Label(who) \o produced[GenOf(who)][(j + 1) \div 2]

\* three phrases printed although a chip burst was cut short by an interrupt
C19_Witness ==
    /\ Len(PhraseLines) = 3
    /\ round = 2
    /\ shown["chip"] >= 0
    /\ shown["chip"] < Len(figures["chip"].frames)

FrameWrites == SelectSeq(events, IsFrame)

\* C20: the frames an animate call writes start at frame 0 of its Spinner,
\* whatever the previous call on that Spinner displayed, and a burst of
\* run_debate that returns without an interrupt has written every frame of
\* the figure exactly once, in order.
C20_StartsAtFrameZero ==
    /\ \A j \in 1..Len(FrameWrites) :
          FrameWrites[j] = Write(FrameText(spinner.frames[((j - 1) % Len(spinner.frames)) + 1]))
    /\ (pc = "returned" /\ interrupts = 0) =>
          FrameWrites = [j \in 1..Len(spinner.frames) |-> Write(FrameText(spinner.frames[j]))]

\* a full second burst of a two-frame chip whose first burst was interrupted
\* after one frame
C20_Witness ==
    /\ dpc = "in_chip"
    /\ round = 2
    /\ Len(figures["chip"].frames) = 2
    /\ shown["chip"] = 1
    /\ pc = "returned"
    /\ interrupts = 0
    /\ Len(FrameWrites) = 2

====
